---- MODULE Spec2Model ----
(***************************************************************************)
(* Model of avwx/forecast/gfs.py: the parser of NOAA GFS MOS bulletins     *)
(* (MAV short range, MEX long range).                                      *)
(*                                                                         *)
(* A Python str is a sequence of one-character strings.  A datetime is the *)
(* number of minutes since 0001-01-01 00:00 UTC, so that adding            *)
(* timedelta(hours=d) is adding 60*d and comparing instants is comparing   *)
(* integers.  A dict is a function whose DOMAIN is the set of its keys.    *)
(***************************************************************************)
EXTENDS Integers, Sequences, FiniteSets, TLC

VARIABLES
    _HANDLERS,        \* module-level dict, gfs.py:100
    _SHORT_HANDLERS,  \* module-level dict, gfs.py:117
    _LONG_HANDLERS,   \* module-level dict, gfs.py:127
    last_call,        \* the parse function called before the one in progress, or "none"
    fn,               \* the function being executed
    pc,               \* its position
    report,           \* parse_*: the argument
    data,             \* parse_*: local `data`
    lines,            \* parse_*: local `lines`
    hours,            \* parse_*: the hour-line tokens (first value of local `periods`)
    periods,          \* parse_* / _parse_lines: the period dicts
    size,             \* _parse_lines: parameter `size`
    handlers,         \* _parse_lines: local `handlers`
    idx,              \* _parse_lines: number of lines the for loop has taken
    values,           \* _parse_lines: local `values` of the last recognized line
    err,              \* the exception that left the call, or "none"
    args,             \* arguments of a directly called helper
    ret               \* its return value

globals == <<_HANDLERS, _SHORT_HANDLERS, _LONG_HANDLERS>>
locals == <<report, data, lines, hours, periods, size, handlers, idx, values, err>>
unit == <<args, ret>>
vars == <<globals, last_call, fn, pc, locals, unit>>

----------------------------------------------------------------------------
(* Bounds of the model *)

\* longest line handed to _split_line directly
MaxLineLen == 5
\* widest column handed to _split_line directly
MaxSize == 3
\* longest prefix handed to _split_line directly
MaxPrefix == 3
\* most columns of a row handed to _thunder directly
MaxThunderCols == 4
\* most hour tokens handed to _find_time_periods directly
MaxHours == 3
\* most data rows of a generated bulletin
MaxRows == 2

----------------------------------------------------------------------------
(* Python values *)

None == [kind |-> "None"]
Str(s) == [kind |-> "str", s |-> s]
Number(r, v) == [kind |-> "Number", repr |-> r, value |-> v]
Tuple(items) == [kind |-> "tuple", items |-> items]
Timestamp(r, dt) == [kind |-> "Timestamp", repr |-> r, dt |-> dt]

\* bool(value): None and "" are false; a Number (a dataclass), a non-empty str
\* and a non-empty tuple are true
Truthy(v) ==
    CASE v.kind = "None" -> FALSE
      [] v.kind = "str" -> v.s # <<>>
      [] v.kind = "tuple" -> v.items # <<>>
      [] OTHER -> TRUE

Max(a, b) == IF a >= b THEN a ELSE b
Min(a, b) == IF a <= b THEN a ELSE b

\* sequences over S of length at most n
SeqsUpTo(S, n) == UNION {[1..k -> S] : k \in 0..n}

RECURSIVE Concat(_)
Concat(ss) == IF ss = <<>> THEN <<>> ELSE Head(ss) \o Concat(Tail(ss))

\* s[n:]
From(s, n) == SubSeq(s, n + 1, Len(s))
\* s[:n]
Upto(s, n) == SubSeq(s, 1, Min(n, Len(s)))

\* str.strip(chars)
RECURSIVE LStrip(_, _)
LStrip(s, chars) ==
    IF s # <<>> /\ Head(s) \in chars THEN LStrip(Tail(s), chars) ELSE s

RECURSIVE RStrip(_, _)
RStrip(s, chars) ==
    IF s # <<>> /\ s[Len(s)] \in chars THEN RStrip(SubSeq(s, 1, Len(s) - 1), chars) ELSE s

Strip(s, chars) == RStrip(LStrip(s, chars), chars)

\* the default of parameter `strip` of _split_line, and the one _thunder passes
StripBar == {" ", "|"}
StripSlash == {" ", "/"}

----------------------------------------------------------------------------
(* _split_line, gfs.py:14-23 *)

\* the while loop: consume `size` characters at a time while that many remain
RECURSIVE SplitLoop(_, _, _, _)
SplitLoop(line, sz, strip, acc) ==
    IF Len(line) >= sz
    THEN SplitLoop(From(line, sz), sz, strip, Append(acc, Strip(Upto(line, sz), strip)))
    ELSE acc

\* a slip: the loop stops one column early, `while len(line) > size`
RECURSIVE SplitLoopShort(_, _, _, _)
SplitLoopShort(line, sz, strip, acc) ==
    IF Len(line) > sz
    THEN SplitLoopShort(From(line, sz), sz, strip, Append(acc, Strip(Upto(line, sz), strip)))
    ELSE acc

_split_line_short(line, sz, prefix, strip) ==
    SplitLoopShort(From(line, prefix), sz, strip, <<>>)

_split_line(line, sz, prefix, strip) ==
    SplitLoop(From(line, prefix), sz, strip, <<>>)


----------------------------------------------------------------------------
(* datetime *)

DigitVal(c) ==
    CASE c = "0" -> 0 [] c = "1" -> 1 [] c = "2" -> 2 [] c = "3" -> 3 [] c = "4" -> 4
      [] c = "5" -> 5 [] c = "6" -> 6 [] c = "7" -> 7 [] c = "8" -> 8 [] c = "9" -> 9

Digits == {"0", "1", "2", "3", "4", "5", "6", "7", "8", "9"}
IsDigits(s) == s # <<>> /\ \A k \in 1..Len(s) : s[k] \in Digits

\* int(s) of a string of decimal digits
RECURSIVE IntOf(_)
IntOf(s) == IF s = <<>> THEN 0 ELSE 10 * IntOf(SubSeq(s, 1, Len(s) - 1)) + DigitVal(s[Len(s)])

IsLeap(y) == (y % 4 = 0 /\ y % 100 # 0) \/ y % 400 = 0
DaysInMonth(m, y) ==
    IF m = 2 THEN (IF IsLeap(y) THEN 29 ELSE 28)
    ELSE IF m \in {4, 6, 9, 11} THEN 30 ELSE 31
DaysBeforeYear(y) == 365 * (y - 1) + (y - 1) \div 4 - (y - 1) \div 100 + (y - 1) \div 400
RECURSIVE DaysBeforeMonth(_, _)
DaysBeforeMonth(m, y) == IF m = 1 THEN 0 ELSE DaysBeforeMonth(m - 1, y) + DaysInMonth(m - 1, y)

\* datetime(y, m, d, H, M, tzinfo=utc) as minutes since 0001-01-01 00:00
DateTime(y, m, d, H, M) ==
    ((DaysBeforeYear(y) + DaysBeforeMonth(m, y) + d - 1) * 24 + H) * 60 + M

\* datetime.hour
HourOf(dt) == (dt \div 60) % 24
\* dt + timedelta(hours=h)
AddHours(dt, h) == dt + 60 * h

----------------------------------------------------------------------------
(* _find_time_periods, gfs.py:35-50 *)

\* the for loop over the hour tokens; acc is the list `periods`
RECURSIVE TimeLoop(_, _, _, _)
TimeLoop(line, previous, timestamp, acc) ==
    IF line = <<>> THEN acc
    ELSE LET hourstr == Head(line)
         IN IF hourstr = <<>>
            THEN TimeLoop(Tail(line), previous, timestamp, acc)
            ELSE LET hour == IntOf(hourstr)
                     difference == IF hour - previous < 0
                                   THEN hour - previous + 24
                                   ELSE hour - previous
                     newstamp == AddHours(timestamp, difference)
                 IN TimeLoop(Tail(line), hour, newstamp,
                             Append(acc, Timestamp(hourstr, newstamp)))

_find_time_periods(line, timestamp) ==
    LET found == TimeLoop(line, HourOf(timestamp), timestamp, <<>>)
    IN [k \in 1..Len(found) |-> ("time" :> found[k])]

----------------------------------------------------------------------------
(* core.make_number (avwx/parsing/core.py): the numeric-token converter.     *)
(* An empty token and a token of missing-value sentinels give None; a token  *)
(* of digits gives a Number holding the text and its value.                  *)

UnknownChars == {"/", "X"}
is_unknown(s) == \A k \in 1..Len(s) : s[k] \in UnknownChars

make_number(s) ==
    IF s = <<>> \/ is_unknown(s) THEN None ELSE Number(s, IntOf(s))

----------------------------------------------------------------------------
(* The handlers, gfs.py:68-97 *)

\* the default of parameter `prefix` of _split_line
DefaultPrefix == 4
\* the prefix _thunder passes
ThunderPrefix == 5

\* _numbers, gfs.py:68-72
_numbers(line, sz, postfix) ==
    LET items == _split_line(line, sz, DefaultPrefix, StripBar)
    IN [k \in 1..Len(items) |-> make_number(items[k] \o postfix)]

\* _wind_direction, gfs.py:75-79
_wind_direction(line, sz) == _numbers(line, sz, <<"0">>)

\* the for loop of _thunder; acc is `ret`
RECURSIVE ThunderLoop(_, _, _)
ThunderLoop(items, previous, acc) ==
    IF items = <<>> THEN acc
    ELSE LET item == Head(items)
         IN IF item = <<>>
            THEN ThunderLoop(Tail(items), previous, Append(acc, None))
            ELSE IF Truthy(previous)
            THEN ThunderLoop(Tail(items), None,
                             Append(acc, Tuple(<<previous, make_number(item)>>)))
            ELSE ThunderLoop(Tail(items), make_number(item), Append(acc, None))

\* a slip: `previous` is not reset after a pair is appended
RECURSIVE ThunderLoopKeep(_, _, _)
ThunderLoopKeep(items, previous, acc) ==
    IF items = <<>> THEN acc
    ELSE LET item == Head(items)
         IN IF item = <<>>
            THEN ThunderLoopKeep(Tail(items), previous, Append(acc, None))
            ELSE IF Truthy(previous)
            THEN ThunderLoopKeep(Tail(items), previous,
                                 Append(acc, Tuple(<<previous, make_number(item)>>)))
            ELSE ThunderLoopKeep(Tail(items), make_number(item), Append(acc, None))

_thunder_keep(line, sz) ==
    ThunderLoopKeep(_split_line(line, sz, ThunderPrefix, StripSlash), None, <<>>)

\* _thunder, gfs.py:82-97
_thunder(line, sz) ==
    ThunderLoop(_split_line(line, sz, ThunderPrefix, StripSlash), None, <<>>)

\* _split_line used as a handler: handler(line, size=size)
SplitHandler(line, sz) ==
    LET items == _split_line(line, sz, DefaultPrefix, StripBar)
    IN [k \in 1..Len(items) |-> Str(items[k])]

----------------------------------------------------------------------------
(* The handler tables, gfs.py:100-134 *)

Entry(keys, handler) == [keys |-> keys, handler |-> handler]

BaseTable ==
    (<<"T", "M", "P">> :> Entry(<<"temperature">>, "_numbers"))
    @@ (<<"D", "P", "T">> :> Entry(<<"dewpoint">>, "_numbers"))
    @@ (<<"C", "L", "D">> :> Entry(<<"cloud">>, "_split_line"))
    @@ (<<"W", "D", "R">> :> Entry(<<"wind_direction">>, "_wind_direction"))
    @@ (<<"W", "S", "P">> :> Entry(<<"wind_speed">>, "_numbers"))
    @@ (<<"P", "0", "6">> :> Entry(<<"precip_chance_6">>, "_numbers"))
    @@ (<<"P", "1", "2">> :> Entry(<<"precip_chance_12">>, "_numbers"))
    @@ (<<"P", "2", "4">> :> Entry(<<"precip_chance_24">>, "_numbers"))
    @@ (<<"Q", "0", "6">> :> Entry(<<"precip_amount_6">>, "_numbers"))
    @@ (<<"Q", "1", "2">> :> Entry(<<"precip_amount_12">>, "_numbers"))
    @@ (<<"Q", "2", "4">> :> Entry(<<"precip_amount_24">>, "_numbers"))
    @@ (<<"T", "Y", "P">> :> Entry(<<"precip_type">>, "_split_line"))

ShortTable ==
    (<<"T", "0", "6">> :> Entry(<<"thunder_storm_6", "severe_storm_6">>, "_thunder"))
    @@ (<<"T", "1", "2">> :> Entry(<<"thunder_storm_12", "severe_storm_12">>, "_thunder"))
    @@ (<<"P", "O", "Z">> :> Entry(<<"freezing_precip">>, "_numbers"))
    @@ (<<"P", "O", "S">> :> Entry(<<"snow">>, "_numbers"))
    @@ (<<"C", "I", "G">> :> Entry(<<"ceiling">>, "_numbers"))
    @@ (<<"V", "I", "S">> :> Entry(<<"visibility">>, "_numbers"))
    @@ (<<"O", "B", "V">> :> Entry(<<"vis_obstruction">>, "_split_line"))

LongTable ==
    (<<"T", "1", "2">> :> Entry(<<"thunder_storm_12">>, "_numbers"))
    @@ (<<"T", "2", "4">> :> Entry(<<"thunder_storm_24">>, "_numbers"))
    @@ (<<"P", "Z", "P">> :> Entry(<<"freezing_precip">>, "_numbers"))
    @@ (<<"P", "R", "S">> :> Entry(<<"rain_snow_mix">>, "_numbers"))
    @@ (<<"P", "S", "N">> :> Entry(<<"snow">>, "_numbers"))
    @@ (<<"S", "N", "W">> :> Entry(<<"snow_amount_24">>, "_numbers"))

\* handler(line, size=size), gfs.py:152
CallHandler(handler, line, sz) ==
    CASE handler = "_numbers" -> _numbers(line, sz, <<>>)
      [] handler = "_wind_direction" -> _wind_direction(line, sz)
      [] handler = "_thunder" -> _thunder(line, sz)
      [] handler = "_split_line" -> SplitHandler(line, sz)

----------------------------------------------------------------------------
(* _timestamp, gfs.py:26-32 *)

\* an exception raised in place of a value
Raised(name) == [kind |-> "raised", err |-> name]

\* datetime.strptime(text, "%m/%d/%Y  %H%M") on the two shapes the 15-character
\* slice takes: "M/DD/YYYY  HHMM", and "MM/DD/YYYY  HHM" (a two-digit month
\* pushes the last digit of the minutes out of the slice; %M then matches one
\* digit).  Any other text raises ValueError.
StrpFields(text) ==
    IF Len(text) # 15 THEN <<>>
    ELSE IF text[2] = "/" /\ text[5] = "/" /\ text[10] = " " /\ text[11] = " "
    THEN <<SubSeq(text, 1, 1), SubSeq(text, 3, 4), SubSeq(text, 6, 9),
           SubSeq(text, 12, 13), SubSeq(text, 14, 15)>>
    ELSE IF text[3] = "/" /\ text[6] = "/" /\ text[11] = " " /\ text[12] = " "
    THEN <<SubSeq(text, 1, 2), SubSeq(text, 4, 5), SubSeq(text, 7, 10),
           SubSeq(text, 13, 14), SubSeq(text, 15, 15)>>
    ELSE <<>>

strptime(text) ==
    LET f == StrpFields(text)
    IN IF f = <<>> \/ \E k \in 1..5 : ~IsDigits(f[k]) THEN Raised("ValueError")
       ELSE LET m == IntOf(f[1])
                d == IntOf(f[2])
                y == IntOf(f[3])
                H == IntOf(f[4])
                M == IntOf(f[5])
            IN IF /\ m \in 1..12 /\ y >= 1 /\ d >= 1 /\ d <= DaysInMonth(m, y)
                  /\ H <= 23 /\ M <= 59
               THEN [kind |-> "datetime", dt |-> DateTime(y, m, d, H, M)]
               ELSE Raised("ValueError")

_timestamp(line) ==
    LET text == SubSeq(line, 28, Min(42, Len(line)))
        timestamp == strptime(text)
    IN IF timestamp.kind = "raised" THEN timestamp ELSE Timestamp(text, timestamp.dt)

----------------------------------------------------------------------------
(* _init_parse, gfs.py:53-65 *)

\* the characters str.strip() removes
Whitespace == {" ", "\n"}

\* str.split("\n"): the pieces between consecutive line breaks
SplitLines(s) ==
    LET breaks == {k \in 1..Len(s) : s[k] = "\n"}
        \* the position of the i-th line break; 0 before the first, Len(s) + 1 after the last
        Break(i) == IF i = 0 THEN 0
                    ELSE IF i > Cardinality(breaks) THEN Len(s) + 1
                    ELSE CHOOSE k \in breaks : Cardinality({j \in breaks : j < k}) = i - 1
    IN [i \in 1..(Cardinality(breaks) + 1) |-> SubSeq(s, Break(i - 1) + 1, Break(i) - 1)]

_init_parse(rep) ==
    LET stripped == Strip(rep, Whitespace)
        ls == SplitLines(stripped)
    IN [data |-> [raw |-> stripped, station |-> Upto(stripped, 4),
                  time |-> _timestamp(ls[1]), remarks |-> None],
        lines |-> ls]

----------------------------------------------------------------------------
(* _parse_lines, gfs.py:137-162 *)

\* a slip: the override entries are written into the shared table itself
BuildHandlersInPlace(base, override) ==
    IF override = None THEN [handlers |-> base, base |-> base]
    ELSE [handlers |-> override @@ base, base |-> override @@ base]

\* gfs.py:143-146: the local table, and the module-level base table after the
\* statement ({**a, **b} builds a new dict)
BuildHandlers(base, override) ==
    IF override = None THEN [handlers |-> base, base |-> base]
    ELSE [handlers |-> override @@ base, base |-> base]

\* gfs.py:158-160: write each true element of a tuple under its key
SetItems(d, keys, items) ==
    LET written == {j \in 1..Len(keys) : Truthy(items[j])}
    IN [k \in DOMAIN d \cup {keys[j] : j \in written} |->
            IF \E j \in written : keys[j] = k
            THEN items[CHOOSE j \in written :
                          keys[j] = k /\ \A h \in written : keys[h] = k => h <= j]
            ELSE d[k]]

\* gfs.py:153-162: the loop over the periods, from period i on
RECURSIVE MergeLoop(_, _, _, _)
MergeLoop(ps, keys, vals, i) ==
    IF i > Len(ps) THEN [periods |-> ps, err |-> "none"]
    ELSE IF i > Len(vals) THEN [periods |-> ps, err |-> "_parse_lines: IndexError"]
    ELSE LET value == vals[i]
         IN IF ~Truthy(value) THEN MergeLoop(ps, keys, vals, i + 1)
            ELSE IF value.kind = "tuple"
            THEN MergeLoop([ps EXCEPT ![i] = SetItems(@, keys, value.items)],
                           keys, vals, i + 1)
            ELSE MergeLoop([ps EXCEPT ![i] = (keys[1] :> value) @@ @], keys, vals, i + 1)

\* a slip: no `if not value: continue`, an absent value is written like any other
RECURSIVE MergeLoopAll(_, _, _, _)
MergeLoopAll(ps, keys, vals, i) ==
    IF i > Len(ps) THEN [periods |-> ps, err |-> "none"]
    ELSE IF i > Len(vals) THEN [periods |-> ps, err |-> "_parse_lines: IndexError"]
    ELSE LET value == vals[i]
         IN IF value.kind = "tuple"
            THEN MergeLoopAll([ps EXCEPT ![i] = SetItems(@, keys, value.items)],
                              keys, vals, i + 1)
            ELSE MergeLoopAll([ps EXCEPT ![i] = (keys[1] :> value) @@ @], keys, vals, i + 1)

MergeAll(ps, keys, vals) == MergeLoopAll(ps, keys, vals, 1)

Merge(ps, keys, vals) == MergeLoop(ps, keys, vals, 1)

\* line[:3]
CodeOf(line) == Upto(line, 3)

\* a slip: KeyError is not caught, an unrecognized line ends the parse
LoopBodyNoCatch(ps, vals, table, line, sz) ==
    IF CodeOf(line) \notin DOMAIN table
    THEN [periods |-> ps, values |-> vals, err |-> "_parse_lines: KeyError"]
    ELSE LET entry == table[CodeOf(line)]
             new == CallHandler(entry.handler, line, sz)
             merged == Merge(ps, entry.keys, new)
         IN [periods |-> merged.periods, values |-> new, err |-> merged.err]

\* gfs.py:147-162: one iteration of the loop over the lines
LoopBody(ps, vals, table, line, sz) ==
    IF CodeOf(line) \notin DOMAIN table
    THEN [periods |-> ps, values |-> vals, err |-> "none"]
    ELSE LET entry == table[CodeOf(line)]
             new == CallHandler(entry.handler, line, sz)
             merged == Merge(ps, entry.keys, new)
         IN [periods |-> merged.periods, values |-> new, err |-> merged.err]

----------------------------------------------------------------------------
(* parse_mav, gfs.py:165-176, and parse_mex, gfs.py:179-195 *)

\* the column width parse_mav leaves to the default of _parse_lines
MavSize == 3
\* the column width parse_mex passes
MexSize == 4

\* str.find(sub): the index (from 0) of the first occurrence, or -1
Find(s, subs) ==
    LET at == {k \in 0..(Len(s) - Len(subs)) : SubSeq(s, k + 1, k + Len(subs)) = subs}
    IN IF at = {} THEN -1 ELSE CHOOSE k \in at : \A h \in at : k <= h

Climo == <<" ", "C", "L", "I", "M", "O">>

\* a slip: the cut keeps the first character of the marker
RemoveClimoLate(ls) ==
    IF Len(ls) >= 3
    THEN LET climo_index == Find(ls[3], Climo)
         IN IF climo_index >= 0
            THEN [k \in 1..Len(ls) |-> Upto(ls[k], climo_index + 1)]
            ELSE ls
    ELSE ls

\* gfs.py:187-190
RemoveClimo(ls) ==
    IF Len(ls) >= 3
    THEN LET climo_index == Find(ls[3], Climo)
         IN IF climo_index >= 0
            THEN [k \in 1..Len(ls) |-> Upto(ls[k], climo_index)]
            ELSE ls
    ELSE ls

\* lines[3:]
Rows(ls) == From(ls, 3)

Parsers == {"parse_mav", "parse_mex"}

----------------------------------------------------------------------------
(* The idle parser: no call in progress *)

ParserIdle ==
    /\ _HANDLERS = BaseTable
    /\ _SHORT_HANDLERS = ShortTable
    /\ _LONG_HANDLERS = LongTable
    /\ last_call = "none"
    /\ report = <<>>
    /\ data = None
    /\ lines = <<>>
    /\ hours = <<>>
    /\ periods = <<>>
    /\ size = 0
    /\ handlers = <<>>
    /\ idx = 0
    /\ values = <<>>
    /\ err = "none"

----------------------------------------------------------------------------
(* Bulletins *)

NL == <<"\n">>

\* "\n" + row, for every row
RECURSIVE JoinRows(_)
JoinRows(rs) == IF rs = <<>> THEN <<>> ELSE NL \o Head(rs) \o JoinRows(Tail(rs))

MavHeader == <<"K", "J", "F", "K", " ", " ", " ", "G", "F", "S", " ", "M", "O", "S", " ", "G", "U", "I", "D", "A", "N", "C", "E", " ", " ", " ", " ", "1", "/", "0", "2", "/", "2", "0", "2", "3", " ", " ", "1", "2", "0", "0", " ", "U", "T", "C">>
MavDateLine == <<"D", "T", " ", "/", "J", "A", "N", " ", " ", " ", "2">>
\* the HR line: three-character columns after a four-character prefix
MavHourLines ==
    {<<"H", "R", " ", " ", " ", "1", "5", " ", "1", "8", " ", "2", "1">>,
     <<"H", "R", " ", " ", " ", "1", "5", " ", " ", " ", " ", "1", "8">>,
     <<"H", "R", " ", " ", " ", "1", "5", " ", "1", "8">>}
\* data rows, annotation lines, short and empty lines
MavRows ==
    {<<"T", "M", "P", " ", " ", "5", "0", " ", "4", "5", " ", "4", "0">>,
     <<"T", "M", "P", " ", " ", " ", " ", " ", "3", "5", " ", " ", " ">>,
     <<"T", "M", "P", " ", " ", "5", "0", " ", "4", "5">>,
     <<"W", "D", "R", " ", " ", "2", "7", " ", " ", " ", " ", "0", "9">>,
     <<"T", "1", "2", " ", " ", " ", " ", " ", " ", "1", "/", " ", " ", "2">>,
     <<"N", "/", "X", " ", " ", "3", "1", " ", " ", " ", " ", "4", "5">>,
     <<>>,
     <<"T", "M">>,
     <<"D", "P", "T", " ", " ", " ", " ", " ", " ", " ", " ", " ", " ">>}
\* the empty report, a header alone, an unreadable header, and the five-period
\* bulletin issued 01/02/2023 1200
MavSpecial ==
    {<<>>,
     <<"K", "J", "F", "K", " ", " ", " ", "G", "F", "S", " ", "M", "O", "S", " ", "G", "U", "I", "D", "A", "N", "C", "E", " ", " ", " ", " ", "1", "/", "0", "2", "/", "2", "0", "2", "3", " ", " ", "1", "2", "0", "0", " ", "U", "T", "C">>,
     <<"K", "J", "F", "K", " ", " ", " ", "G", "F", "S", " ", "M", "O", "S", " ", "G", "U", "I", "D", "A", "N", "C", "E", "\n", "D", "T", " ", "/", "J", "A", "N", " ", " ", " ", "2", "\n", "H", "R", " ", " ", " ", "1", "5", " ", "1", "8">>,
     <<"K", "J", "F", "K", " ", " ", " ", "G", "F", "S", " ", "M", "O", "S", " ", "G", "U", "I", "D", "A", "N", "C", "E", " ", " ", " ", " ", "0", "1", "/", "0", "2", "/", "2", "0", "2", "3", " ", " ", "1", "2", "0", "0", " ", "U", "T", "C", "\n", "D", "T", " ", "/", "J", "A", "N", " ", " ", " ", "2", "\n", "H", "R", " ", " ", " ", "1", "5", " ", "1", "8", " ", "2", "1", " ", "0", "0", " ", "0", "3", "\n", "T", "M", "P", " ", "0", "5", "0", "0", "4", "5", "0", "4", "0", "0", "3", "5", "0", "3", "0", "\n">>}

MavReports ==
    {MavHeader \o NL \o MavDateLine \o NL \o h \o JoinRows(rs) :
        h \in MavHourLines, rs \in SeqsUpTo(MavRows, MaxRows)} \cup MavSpecial

MexHeader == <<"K", "B", "O", "S", " ", " ", " ", "G", "F", "S", "X", " ", "M", "O", "S", " ", "G", "U", "I", "D", "A", "N", "C", "E", " ", " ", " ", "7", "/", "2", "8", "/", "2", "0", "2", "0", " ", " ", "0", "0", "0", "0", " ", "U", "T", "C">>
\* the FHR line: four-character columns after a four-character prefix
MexHourLines ==
    {<<"F", "H", "R", " ", " ", "2", "4", "|", " ", "3", "6", " ", " ", "4", "8", "|">>,
     <<"F", "H", "R", " ", " ", " ", " ", " ", " ", "2", "4", "|", " ", "3", "6", "|">>}
\* the day line, with and without the climatology marker
MexDayLines ==
    {<<"T", "U", "E", " ", " ", "2", "8", "|", " ", "2", "9", " ", " ", "3", "0", "|">>,
     <<"T", "U", "E", " ", " ", "2", "8", "|", " ", "2", "9", " ", " ", "3", "0", "|", " ", "C", "L", "I", "M", "O">>,
     <<"T", "U", "E", " ", " ", "2", "8", "|", " ", "C", "L", "I", "M", "O">>}
MexRows ==
    {<<"T", "M", "P", " ", " ", "8", "6", "|", " ", "7", "5", " ", " ", "8", "9", "|", " ", "6", "4", " ", "8", "1">>,
     <<"T", "M", "P", " ", " ", " ", " ", " ", " ", "7", "0", "|">>,
     <<"T", "1", "2", " ", " ", "1", "0", "|", " ", " ", "5", " ", " ", "1", "0", "|">>,
     <<"C", "L", "D", " ", " ", "O", "V", "|", " ", " ", " ", " ", " ", "B", "K", "|">>,
     <<"W", "D", "R", " ", " ", "2", "7", "|", " ", " ", " ", " ", " ", "0", "9", "|">>,
     <<"P", "Z", "P", " ", " ", " ", " ", " ", " ", " ", " ", " ", " ", " ", " ", " ">>}
\* the empty report, a header alone, two lines, an unreadable header
MexSpecial ==
    {<<>>,
     <<"K", "B", "O", "S", " ", " ", " ", "G", "F", "S", "X", " ", "M", "O", "S", " ", "G", "U", "I", "D", "A", "N", "C", "E", " ", " ", " ", "7", "/", "2", "8", "/", "2", "0", "2", "0", " ", " ", "0", "0", "0", "0", " ", "U", "T", "C">>,
     <<"K", "B", "O", "S", " ", " ", " ", "G", "F", "S", "X", " ", "M", "O", "S", " ", "G", "U", "I", "D", "A", "N", "C", "E", " ", " ", " ", "7", "/", "2", "8", "/", "2", "0", "2", "0", " ", " ", "0", "0", "0", "0", " ", "U", "T", "C", "\n", "F", "H", "R", " ", " ", "2", "4", "|", " ", "3", "6", " ">>,
     <<"K", "B", "O", "S", " ", " ", " ", "G", "F", "S", "X", " ", "M", "O", "S", " ", "G", "U", "I", "D", "A", "N", "C", "E", "\n", "F", "H", "R", " ", " ", "2", "4", "|", " ", "3", "6", " ", "\n", "T", "U", "E", " ", " ", "2", "8", "|", " ", "2", "9", " ">>}

MexReports ==
    {MexHeader \o NL \o h \o NL \o d \o JoinRows(rs) :
        h \in MexHourLines, d \in MexDayLines, rs \in SeqsUpTo(MexRows, MaxRows)}
    \cup MexSpecial

----------------------------------------------------------------------------
(* The parser: parse_mav and parse_mex, one call at a time *)

NoLocals ==
    [report |-> <<>>, data |-> None, lines |-> <<>>, hours |-> <<>>, periods |-> <<>>,
     size |-> 0, handlers |-> <<>>, idx |-> 0, values |-> <<>>, err |-> "none"]

\* parse_mav up to the loop of _parse_lines, gfs.py:169-174 and 143-146
parse_mav_begin(rep, base, override) ==
    IF rep = <<>> THEN [pc |-> "return", ret |-> None, loc |-> NoLocals, base |-> base]
    ELSE LET init == _init_parse(rep)
             entered == [NoLocals EXCEPT !.report = rep, !.data = init.data,
                                         !.lines = init.lines]
         IN IF init.data.time.kind = "raised"
            THEN [pc |-> "raised", ret |-> <<>>, base |-> base,
                  loc |-> [NoLocals EXCEPT !.report = rep,
                                           !.err = "_timestamp: ValueError"]]
            ELSE IF Len(init.lines) < 3
            THEN [pc |-> "raised", ret |-> <<>>, base |-> base,
                  loc |-> [entered EXCEPT !.err = "parse_mav: IndexError"]]
            ELSE LET hs == _split_line(init.lines[3], MavSize, DefaultPrefix, StripBar)
                     built == BuildHandlers(base, override)
                 IN [pc |-> "lines", ret |-> <<>>, base |-> built.base,
                     loc |-> [entered EXCEPT
                                !.hours = hs,
                                !.periods = _find_time_periods(hs, init.data.time.dt),
                                !.size = MavSize,
                                !.handlers = built.handlers]]

\* parse_mex up to the loop of _parse_lines, gfs.py:183-193 and 143-146
parse_mex_begin(rep, base, override) ==
    IF rep = <<>> THEN [pc |-> "return", ret |-> None, loc |-> NoLocals, base |-> base]
    ELSE LET init == _init_parse(rep)
             ls == RemoveClimo(init.lines)
             entered == [NoLocals EXCEPT !.report = rep, !.data = init.data, !.lines = ls]
         IN IF init.data.time.kind = "raised"
            THEN [pc |-> "raised", ret |-> <<>>, base |-> base,
                  loc |-> [NoLocals EXCEPT !.report = rep,
                                           !.err = "_timestamp: ValueError"]]
            ELSE IF Len(ls) < 2
            THEN [pc |-> "raised", ret |-> <<>>, base |-> base,
                  loc |-> [entered EXCEPT !.err = "parse_mex: IndexError"]]
            ELSE LET hs == _split_line(ls[2], MexSize, DefaultPrefix, StripBar)
                     built == BuildHandlers(base, override)
                 IN [pc |-> "lines", ret |-> <<>>, base |-> built.base,
                     loc |-> [entered EXCEPT
                                !.hours = hs,
                                !.periods = _find_time_periods(hs, init.data.time.dt),
                                !.size = MexSize,
                                !.handlers = built.handlers]]

SetLocals(loc) ==
    /\ report' = loc.report
    /\ data' = loc.data
    /\ lines' = loc.lines
    /\ hours' = loc.hours
    /\ periods' = loc.periods
    /\ size' = loc.size
    /\ handlers' = loc.handlers
    /\ idx' = loc.idx
    /\ values' = loc.values
    /\ err' = loc.err

Init ==
    /\ ParserIdle
    /\ fn = "none"
    /\ pc = "idle"
    /\ args = <<>>
    /\ ret = <<>>

ParseMav ==
    /\ pc = "idle"
    /\ \E rep \in MavReports :
          LET begun == parse_mav_begin(rep, _HANDLERS, _SHORT_HANDLERS)
          IN /\ SetLocals(begun.loc)
             /\ pc' = begun.pc
             /\ ret' = begun.ret
             /\ _HANDLERS' = begun.base
    /\ fn' = "parse_mav"
    /\ UNCHANGED <<_SHORT_HANDLERS, _LONG_HANDLERS, last_call, args>>

ParseMex ==
    /\ pc = "idle"
    /\ \E rep \in MexReports :
          LET begun == parse_mex_begin(rep, _HANDLERS, _LONG_HANDLERS)
          IN /\ SetLocals(begun.loc)
             /\ pc' = begun.pc
             /\ ret' = begun.ret
             /\ _HANDLERS' = begun.base
    /\ fn' = "parse_mex"
    /\ UNCHANGED <<_SHORT_HANDLERS, _LONG_HANDLERS, last_call, args>>

\* one iteration of `for line in lines`, gfs.py:147-162
ParseLine ==
    /\ fn \in Parsers
    /\ pc = "lines"
    /\ idx < Len(Rows(lines))
    /\ LET step == LoopBody(periods, values, handlers, Rows(lines)[idx + 1], size)
       IN /\ periods' = step.periods
          /\ values' = step.values
          /\ err' = step.err
          /\ pc' = IF step.err = "none" THEN "lines" ELSE "raised"
    /\ idx' = idx + 1
    /\ UNCHANGED <<globals, last_call, fn, report, data, lines, hours, size, handlers, unit>>

\* the loop is over: gfs.py:175-176 and 194-195
Finish ==
    /\ fn \in Parsers
    /\ pc = "lines"
    /\ idx = Len(Rows(lines))
    /\ data' = [k \in DOMAIN data \cup {"forecast"} |->
                    IF k = "forecast" THEN periods ELSE data[k]]
    /\ ret' = data'
    /\ pc' = "return"
    /\ UNCHANGED <<globals, last_call, fn, report, lines, hours, periods, size, handlers,
                   idx, values, err, args>>

\* the call returns or its exception reaches the caller; the locals are gone
Return ==
    /\ fn \in Parsers
    /\ pc \in {"return", "raised"}
    /\ SetLocals(NoLocals)
    /\ fn' = "none"
    /\ pc' = "idle"
    /\ ret' = <<>>
    /\ last_call' = fn
    /\ UNCHANGED <<globals, args>>

Next == ParseMav \/ ParseMex \/ ParseLine \/ Finish \/ Return

Spec == Init /\ [][Next]_vars

----------------------------------------------------------------------------
(* Properties of the parser *)

\* the loop of _parse_lines was entered by the call in progress
Entered == fn \in Parsers /\ handlers # <<>>

\* the line the loop took last
LastRow == Rows(lines)[idx]

\* the value a row's handler output supplies to the row's j-th key at token
\* index c, or None: a scalar goes to the first key, element j of a tuple to key j
Contribution(vals, j, c) ==
    IF c > Len(vals) \/ c < 1 THEN None
    ELSE IF ~Truthy(vals[c]) THEN None
    ELSE IF vals[c].kind = "tuple"
    THEN (IF Truthy(vals[c].items[j]) THEN vals[c].items[j] ELSE None)
    ELSE IF j = 1 THEN vals[c] ELSE None

\* every destination field name of the three tables
FieldNames ==
    LET KeysOf(t) == UNION {{t[c].keys[j] : j \in 1..Len(t[c].keys)} : c \in DOMAIN t}
    IN KeysOf(BaseTable) \cup KeysOf(ShortTable) \cup KeysOf(LongTable)

\* C2: a recognized row that tokenizes to fewer values than there are periods
\* does not make _parse_lines raise.
C2_ShortRowNoRaise ==
    (Entered /\ idx >= 1 /\ CodeOf(LastRow) \in DOMAIN handlers
       /\ Len(values) < Len(periods)) =>
        (pc # "raised" /\ err = "none")

\* C3: in a row handled by _numbers or _wind_direction, a column whose stripped
\* token is empty yields None, and the row leaves that period's field absent.
C3_EmptyTokenAbsent ==
    (Entered /\ idx >= 1 /\ CodeOf(LastRow) \in DOMAIN handlers
       /\ handlers[CodeOf(LastRow)].handler \in {"_numbers", "_wind_direction"}) =>
        LET toks == _split_line(LastRow, size, DefaultPrefix, StripBar)
            key == handlers[CodeOf(LastRow)].keys[1]
        IN \A i \in 1..Len(toks) :
              toks[i] = <<>> =>
                 /\ values[i] = None
                 /\ (idx = 1 /\ i <= Len(periods)) => key \notin DOMAIN periods[i]

\* the column (token index) of the hour line that produced period k
ColumnOf(k) ==
    CHOOSE c \in 1..Len(hours) :
        hours[c] # <<>> /\ Cardinality({b \in 1..c : hours[b] # <<>>}) = k

\* C4: the value merged into period k is the one in the row column at the
\* position of the hour-line column that produced period k.
C4_ColumnAligned ==
    (Entered /\ idx >= 1 /\ err = "none" /\ CodeOf(LastRow) \in DOMAIN handlers) =>
        LET keys == handlers[CodeOf(LastRow)].keys
        IN \A k \in 1..Len(periods) : \A j \in 1..Len(keys) :
              LET v == Contribution(values, j, ColumnOf(k))
              IN v # None =>
                    (keys[j] \in DOMAIN periods[k] /\ periods[k][keys[j]] = v)

\* what a row with the given keys and handler output supplies to each of its
\* keys in period i, or None
RowGives(keys, vals, i) ==
    [f \in {keys[j] : j \in 1..Len(keys)} |->
        LET js == {j \in 1..Len(keys) : keys[j] = f /\ Contribution(vals, j, i) # None}
        IN IF js = {} THEN None
           ELSE Contribution(vals, CHOOSE j \in js : \A h \in js : h <= j, i)]

\* what each row taken so far supplies to each period
RowsGive ==
    [r \in 1..idx |->
        LET line == Rows(lines)[r]
        IN IF CodeOf(line) \notin DOMAIN handlers
           THEN [i \in 1..Len(periods) |-> <<>>]
           ELSE LET entry == handlers[CodeOf(line)]
                    vals == CallHandler(entry.handler, line, size)
                IN [i \in 1..Len(periods) |-> RowGives(entry.keys, vals, i)]]

\* C7: after the rows taken so far, every field of every period holds the value
\* of the last row that gave that slot a non-absent value (for a paired row the
\* element of its own key), a field no row gave a value is missing, and the
\* period's time is the one the hour line gave it.
C7_LastWriteWins ==
    Entered =>
        \A gives \in {RowsGive} :
           /\ Len(periods) = Len(_find_time_periods(hours, data.time.dt))
           /\ \A i \in 1..Len(periods) :
                 /\ DOMAIN periods[i] \subseteq FieldNames \cup {"time"}
                 /\ periods[i]["time"] = _find_time_periods(hours, data.time.dt)[i]["time"]
                 /\ \A f \in FieldNames :
                       LET rs == {r \in 1..idx : f \in DOMAIN gives[r][i]
                                                   /\ gives[r][i][f] # None}
                       IN IF rs = {} THEN f \notin DOMAIN periods[i]
                          ELSE /\ f \in DOMAIN periods[i]
                               /\ periods[i][f] =
                                     gives[CHOOSE r \in rs : \A h \in rs : h <= r][i][f]

\* two rows of the same code: the second overwrote one slot and, absent in
\* another slot, left the first row's value there
C7_Witness ==
    /\ Entered /\ pc = "return" /\ idx = 2
    /\ CodeOf(Rows(lines)[1]) = CodeOf(Rows(lines)[2])
    /\ Len(periods) = 2
    /\ "temperature" \in DOMAIN periods[1] /\ "temperature" \in DOMAIN periods[2]
    /\ periods[1]["temperature"].repr = <<"5", "0">>
    /\ periods[2]["temperature"].repr = <<"3", "5">>

\* the codes of the table the format in progress dispatches on
ActiveCodes ==
    DOMAIN BaseTable \cup
        (IF fn = "parse_mav" THEN DOMAIN ShortTable ELSE DOMAIN LongTable)

\* C8: a line whose first 3 characters are not a code of the active table (a
\* shorter or an empty line included) is skipped: no exception, no period
\* changed, and the loop goes on with the next line.
C8_SkipUnrecognized ==
    [][(fn \in Parsers /\ pc = "lines" /\ idx < Len(Rows(lines))
          /\ Upto(Rows(lines)[idx + 1], 3) \notin ActiveCodes) =>
       (periods' = periods /\ pc' = "lines" /\ err' = "none" /\ idx' = idx + 1
          /\ lines' = lines /\ handlers' = handlers)]_vars

\* a line shorter than 3 characters was skipped and the row after it merged
C8_Witness ==
    /\ Entered /\ pc = "return" /\ idx = 2
    /\ Len(Rows(lines)[1]) < 3
    /\ CodeOf(Rows(lines)[2]) \in ActiveCodes
    /\ \E i \in 1..Len(periods) : DOMAIN periods[i] # {"time"}

\* the lines of the report as _init_parse splits them
RawLines == SplitLines(Strip(report, Whitespace))

\* the index of the marker on the third line, or -1
MarkerIndex == IF Len(RawLines) >= 3 THEN Find(RawLines[3], Climo) ELSE -1

\* the periods after the first n rows of ls, from the hour line of ls alone
RECURSIVE RunRows(_, _, _, _, _, _)
RunRows(ps, vals, table, rows, n, sz) ==
    IF n = 0 THEN ps
    ELSE LET before == RunRows(ps, vals, table, rows, n - 1, sz)
         IN LoopBody(before, vals, table, rows[n], sz).periods

T12 == <<"T", "1", "2">>
TMP == <<"T", "M", "P">>

\* C10: the shared base table and the override sets are never modified; each
\* format dispatches on the base table overlaid with its own entries, the
\* override winning: T12 is a pair handled by _thunder in parse_mav and a scalar
\* handled by _numbers in parse_mex, TMP is the same in both; and a T12 row is
\* merged accordingly.
C10_PerFormatTable ==
    /\ _HANDLERS = BaseTable
    /\ _SHORT_HANDLERS = ShortTable
    /\ _LONG_HANDLERS = LongTable
    /\ Entered =>
          LET over == IF fn = "parse_mav" THEN ShortTable ELSE LongTable
          IN /\ DOMAIN handlers = DOMAIN BaseTable \cup DOMAIN over
             /\ \A c \in DOMAIN handlers :
                   handlers[c] = IF c \in DOMAIN over THEN over[c] ELSE BaseTable[c]
             /\ handlers[TMP] = Entry(<<"temperature">>, "_numbers")
             /\ handlers[T12] =
                   IF fn = "parse_mav"
                   THEN Entry(<<"thunder_storm_12", "severe_storm_12">>, "_thunder")
                   ELSE Entry(<<"thunder_storm_12">>, "_numbers")
    /\ (Entered /\ idx >= 1 /\ CodeOf(LastRow) = T12) =>
          \A i \in 1..Min(Len(values), Len(periods)) :
              Truthy(values[i]) =>
                 IF fn = "parse_mav"
                 THEN /\ values[i].kind = "tuple"
                      /\ Truthy(values[i].items[1]) =>
                            periods[i]["thunder_storm_12"] = values[i].items[1]
                      /\ Truthy(values[i].items[2]) =>
                            periods[i]["severe_storm_12"] = values[i].items[2]
                 ELSE /\ values[i].kind = "Number"
                      /\ periods[i]["thunder_storm_12"] = values[i]
                      /\ "severe_storm_12" \notin DOMAIN periods[i]

\* parse_mav after parse_mex: a T12 row merged as a pair
C10_Witness ==
    /\ last_call = "parse_mex" /\ fn = "parse_mav"
    /\ Entered /\ idx >= 1 /\ CodeOf(LastRow) = T12
    /\ \E i \in 1..Len(periods) :
          {"thunder_storm_12", "severe_storm_12"} \subseteq DOMAIN periods[i]

\* the five-period bulletin issued 01/02/2023 1200: temperatures 50, 45, 40, 35,
\* 30 at 15:00, 18:00, 21:00 and, the next day, 00:00 and 03:00
FivePeriodBulletin ==
    (fn = "parse_mav" /\ pc = "return" /\ Len(periods) = 5) =>
        /\ [i \in 1..5 |-> periods[i]["temperature"].value] = <<50, 45, 40, 35, 30>>
        /\ [i \in 1..5 |-> periods[i]["time"].dt] =
              <<DateTime(2023, 1, 2, 15, 0), DateTime(2023, 1, 2, 18, 0),
                DateTime(2023, 1, 2, 21, 0), DateTime(2023, 1, 3, 0, 0),
                DateTime(2023, 1, 3, 3, 0)>>

----------------------------------------------------------------------------
(* _split_line called directly *)

SplitChars == {" ", "|", "5"}

RECURSIVE StringsUpTo(_, _)
StringsUpTo(chars, n) ==
    IF n = 0 THEN {<<>>}
    ELSE LET shorter == StringsUpTo(chars, n - 1)
         IN shorter \cup {Append(s, c) : s \in shorter, c \in chars}

InitSplit ==
    /\ ParserIdle
    /\ fn = "_split_line"
    /\ pc = "call"
    /\ args \in [line : StringsUpTo(SplitChars, MaxLineLen), size : 1..MaxSize,
                 prefix : 0..MaxPrefix, strip : {StripBar, StripSlash}]
    /\ ret = <<>>

CallSplitLine ==
    /\ fn = "_split_line"
    /\ pc = "call"
    /\ ret' = _split_line(args.line, args.size, args.prefix, args.strip)
    /\ pc' = "return"
    /\ UNCHANGED <<globals, last_call, fn, locals, args>>

NextSplit == CallSplitLine

SpecSplit == InitSplit /\ [][NextSplit]_vars

\* the characters of column i (1-based) of a line
Column(line, sz, prefix, i) == SubSeq(line, prefix + (i - 1) * sz + 1, prefix + i * sz)

\* t is chunk with characters of `chars` removed from both ends, and only those
IsStripOf(t, chunk, chars) ==
    /\ \E a \in 0..Len(chunk) : \E b \in a..Len(chunk) :
          /\ t = SubSeq(chunk, a + 1, b)
          /\ \A k \in (1..a) \cup ((b + 1)..Len(chunk)) : chunk[k] \in chars
    /\ t # <<>> => (t[1] \notin chars /\ t[Len(t)] \notin chars)

\* C6 as stated: the count of tokens is floor((len(line) - p) / w)
C6_Original ==
    (fn = "_split_line" /\ pc = "return") =>
        Len(ret) = (Len(args.line) - args.prefix) \div args.size

\* C6 amended: _split_line returns max(0, floor((len(line) - p) / w)) tokens (none
\* when the line is shorter than the prefix), token i is column i stripped, a
\* fully blank column keeps its empty token, and a line of blanks yields only
\* empty tokens.
C6_SplitLine ==
    (fn = "_split_line" /\ pc = "return") =>
        /\ Len(ret) = Max(0, (Len(args.line) - args.prefix) \div args.size)
        /\ \A i \in 1..Len(ret) :
              LET col == Column(args.line, args.size, args.prefix, i)
              IN /\ IsStripOf(ret[i], col, args.strip)
                 /\ (\A k \in 1..Len(col) : col[k] = " ") => ret[i] = <<>>
        /\ (\A k \in 1..Len(args.line) : args.line[k] = " ") =>
              \A i \in 1..Len(ret) : ret[i] = <<>>

\* a line with a blank column between two filled ones was split
C6_Witness ==
    /\ fn = "_split_line" /\ pc = "return"
    /\ Len(ret) = 3
    /\ ret[1] # <<>> /\ ret[2] = <<>> /\ ret[3] # <<>>
    /\ args.prefix > 0

----------------------------------------------------------------------------
(* _thunder called directly *)

\* three-character columns of a T06 / T12 row
ThunderCells ==
    {<<" ", " ", " ">>, <<" ", "1", "/">>, <<" ", "2", " ">>, <<" ", "X", " ">>,
     <<"1", "2", " ">>}

ThunderLines ==
    {<<"T", "0", "6", " ", " ">> \o Concat(cs) : cs \in SeqsUpTo(ThunderCells, MaxThunderCols)}

InitThunder ==
    /\ ParserIdle
    /\ fn = "_thunder"
    /\ pc = "call"
    /\ args \in [line : ThunderLines, size : {3}]
    /\ ret = <<>>

CallThunder ==
    /\ fn = "_thunder"
    /\ pc = "call"
    /\ ret' = _thunder(args.line, args.size)
    /\ pc' = "return"
    /\ UNCHANGED <<globals, last_call, fn, locals, args>>

NextThunder == CallThunder

SpecThunder == InitThunder /\ [][NextThunder]_vars

\* the tokens of the row _thunder was given
ThunderTokens == _split_line(args.line, args.size, ThunderPrefix, StripSlash)

\* C5: _thunder returns one entry per token, each None or a tuple of exactly two
\* elements; a tuple stands only at a non-empty token whose nearest non-empty
\* predecessor was left pending (its own slot None, its number not None) and
\* holds that number and the token's own; the non-empty token after a tuple gets
\* None (the pending value was cleared).
C5_Thunder ==
    (fn = "_thunder" /\ pc = "return") =>
        LET toks == ThunderTokens
            IsPair(i) == ret[i].kind = "tuple"
            \* the nearest non-empty token before i, or 0
            PrevFull(i) == LET js == {j \in 1..(i - 1) : toks[j] # <<>>}
                           IN IF js = {} THEN 0 ELSE CHOOSE j \in js : \A k \in js : k <= j
        IN /\ Len(ret) = Len(toks)
           /\ \A i \in 1..Len(ret) :
                 /\ ret[i] = None \/ (IsPair(i) /\ Len(ret[i].items) = 2)
                 /\ IsPair(i) =>
                       /\ toks[i] # <<>>
                       /\ PrevFull(i) # 0
                       /\ ret[PrevFull(i)] = None
                       /\ make_number(toks[PrevFull(i)]) # None
                       /\ ret[i].items = <<make_number(toks[PrevFull(i)]), make_number(toks[i])>>
                 /\ (toks[i] # <<>> /\ PrevFull(i) # 0 /\ IsPair(PrevFull(i))) => ret[i] = None
                 /\ (toks[i] # <<>> /\ PrevFull(i) = 0) => ret[i] = None

\* tokens 1, "", 2, 12: a pair across a blank column, then an isolated trailing value
C5_Witness ==
    /\ fn = "_thunder" /\ pc = "return"
    /\ Len(ret) = 4
    /\ ThunderTokens[1] # <<>> /\ ThunderTokens[2] = <<>>
    /\ ret[3].kind = "tuple"
    /\ ThunderTokens[4] # <<>> /\ ret[4] = None

----------------------------------------------------------------------------
(* _find_time_periods called directly *)

\* hour tokens as _split_line leaves them: empty, or an hour 0..23
HourTokens ==
    {<<>>, <<"0", "0">>, <<"3">>, <<"1", "2">>, <<"1", "5">>, <<"2", "3">>}

\* issuance instants
Issuances ==
    {DateTime(2023, 1, 2, 12, 0), DateTime(2023, 1, 2, 0, 0),
     DateTime(2024, 2, 28, 23, 30), DateTime(2023, 12, 31, 15, 0)}

InitTime ==
    /\ ParserIdle
    /\ fn = "_find_time_periods"
    /\ pc = "call"
    /\ args \in [line : SeqsUpTo(HourTokens, MaxHours), timestamp : Issuances]
    /\ ret = <<>>

CallFindTimePeriods ==
    /\ fn = "_find_time_periods"
    /\ pc = "call"
    /\ ret' = _find_time_periods(args.line, args.timestamp)
    /\ pc' = "return"
    /\ UNCHANGED <<globals, last_call, fn, locals, args>>

NextTime == CallFindTimePeriods

SpecTime == InitTime /\ [][NextTime]_vars

\* C1: the period timestamps are non-decreasing in list order, and a period
\* whose hour-of-day is not greater than the previous hour-of-day (the issuance
\* hour for the first period) is strictly later than the previous timestamp (the
\* issuance instant for the first period).
C1_Rollover ==
    (fn = "_find_time_periods" /\ pc = "return") =>
        \A k \in 1..Len(ret) :
            LET before == IF k = 1 THEN args.timestamp ELSE ret[k - 1]["time"].dt
                prevHour == IF k = 1 THEN HourOf(args.timestamp)
                            ELSE IntOf(ret[k - 1]["time"].repr)
                now == ret[k]["time"].dt
            IN /\ now >= before
               /\ IntOf(ret[k]["time"].repr) <= prevHour => now > before

====
